---- MODULE Spec2Model ----
(***************************************************************************)
(* swaptz: timestamp validation and multi-mode formatting                  *)
(* (lib/timestamp: validateTimestamp, formatTimestamp, getRelativeTime,    *)
(* isValidTimestamp, convertTimestamp, safeFormatTimestamp) and the state  *)
(* of the timestamp page (app/[timestamp]/page.tsx).                       *)
(*                                                                         *)
(* Representation of values.                                               *)
(*  - A finite JS Number that holds an integer is the record               *)
(*    [k |-> "fin", d, s] standing for d * 86400 + s with 0 <= s < 86400   *)
(*    (whole days and second of the day).  TLC's integers are 32 bits wide *)
(*    and MAX_TIMESTAMP = 4102444800 is not, so the two limbs keep the     *)
(*    program's values exact.  Negative zero is not told apart from zero   *)
(*    (the program only compares and multiplies it).                       *)
(*  - NaN, +Infinity and -Infinity are the records with k = "nan", "inf",  *)
(*    "ninf".                                                              *)
(*  - A JS value handed to a function carries its typeof tag ("string",    *)
(*    "number", "null", "undefined").  The characters of a timestamp       *)
(*    string are a sequence of one-character strings; a timezone           *)
(*    identifier or a mode is a TLA+ string.                               *)
(***************************************************************************)
EXTENDS Integers, Sequences, FiniteSets, TLC

\* ------------------------------------------------------------ bounds

\* Longest string over Alphabet handed to validateTimestamp.
MaxLen == 2

\* Depth of nested formatTimestamp calls the host's call stack holds before
\* it raises "Maximum call stack size exceeded".
MaxStack == 3

\* Minutes the clock of the timezone lists runs on after the first instant.
MaxMinutes == 8

\* ------------------------------------------------------------ numbers

SECONDS_IN_DAY == 86400

Num(d, s) == [k |-> "fin", d |-> d, s |-> s]

NaN == [k |-> "nan", d |-> 0, s |-> 0]

PosInf == [k |-> "inf", d |-> 0, s |-> 0]

NegInf == [k |-> "ninf", d |-> 0, s |-> 0]

Zero == Num(0, 0)

\* An integer that fits TLC's integers, as a Number.
FromInt(n) == Num(n \div SECONDS_IN_DAY, n % SECONDS_IN_DAY)

\* Number.isNaN / the global isNaN on a Number.
IsNaN(x) == x.k = "nan"

\* Number.isFinite on a Number.
IsFinite(x) == x.k = "fin"

\* a < b on Numbers (false as soon as one side is NaN).
Less(a, b) ==
    IF a.k = "nan" \/ b.k = "nan" THEN FALSE
    ELSE IF a.k = "ninf" THEN b.k # "ninf"
    ELSE IF a.k = "inf" \/ b.k = "ninf" THEN FALSE
    ELSE IF b.k = "inf" THEN TRUE
    ELSE a.d < b.d \/ (a.d = b.d /\ a.s < b.s)

\* a > b on Numbers.
Greater(a, b) == Less(b, a)

\* -x for a finite x.
Negate(x) ==
    IF x.s = 0 THEN Num(0 - x.d, 0)
    ELSE Num(0 - x.d - 1, SECONDS_IN_DAY - x.s)

\* x + k for a finite x and a small integer k.
AddSeconds(x, k) ==
    Num(x.d + ((x.s + k) \div SECONDS_IN_DAY), (x.s + k) % SECONDS_IN_DAY)

\* x * 10 + digit for a finite x >= 0: one step of reading a decimal numeral.
MulAdd(x, digit) ==
    Num(x.d * 10 + ((x.s * 10 + digit) \div SECONDS_IN_DAY),
        (x.s * 10 + digit) % SECONDS_IN_DAY)

\* ------------------------------------------------------------ JS values

\* A JS value: its typeof tag and its payload.  A string is either a
\* sequence of characters (chars) or an identifier (id); the field that is
\* not in use is empty.
Value(t, chars, id, num) == [t |-> t, chars |-> chars, id |-> id, num |-> num]

Str(chars) == Value("string", chars, "", Zero)

Ident(id) == Value("string", <<>>, id, Zero)

Number(num) == Value("number", <<>>, "", num)

Null == Value("null", <<>>, "", Zero)

Undefined == Value("undefined", <<>>, "", Zero)

\* !x: null, undefined, the empty string, 0 and NaN are falsy.
Falsy(x) ==
    IF x.t \in {"null", "undefined"} THEN TRUE
    ELSE IF x.t = "string" THEN x.chars = <<>> /\ x.id = ""
    ELSE IF x.t = "number" THEN IsNaN(x.num) \/ x.num = Zero
    ELSE FALSE

\* ------------------------------------------------------------ parseInt

DigitValue ==
    [c \in {"0", "1", "2", "3", "4", "5", "6", "7", "8", "9"} |->
        CASE c = "0" -> 0 [] c = "1" -> 1 [] c = "2" -> 2 [] c = "3" -> 3
          [] c = "4" -> 4 [] c = "5" -> 5 [] c = "6" -> 6 [] c = "7" -> 7
          [] c = "8" -> 8 [] c = "9" -> 9]

IsDigit(c) == c \in DOMAIN DigitValue

\* StrWhiteSpaceChar, as far as the model's alphabet has it.
IsWhiteSpace(c) == c = " "

RECURSIVE TrimStart(_)
\* parseInt step 2: the string without its leading white space.
TrimStart(s) ==
    IF s # <<>> /\ IsWhiteSpace(Head(s)) THEN TrimStart(Tail(s)) ELSE s

RECURSIVE DigitRun(_)
\* parseInt step 6: the longest prefix made of radix-10 digits.
DigitRun(s) ==
    IF s # <<>> /\ IsDigit(Head(s)) THEN <<Head(s)>> \o DigitRun(Tail(s))
    ELSE <<>>

RECURSIVE MathInt(_, _)
\* parseInt step 8: the integer a digit run denotes (acc is the value read
\* so far).  Runs of the model stay below 2^53, where a double is exact.
MathInt(acc, z) ==
    IF z = <<>> THEN acc ELSE MathInt(MulAdd(acc, DigitValue[Head(z)]), Tail(z))

\* parseInt(string, 10) of ECMAScript on a sequence of characters.
ParseInt(string) ==
    LET S == TrimStart(string)
        negative == S # <<>> /\ Head(S) = "-"
        unsigned == IF S # <<>> /\ Head(S) \in {"+", "-"} THEN Tail(S) ELSE S
        Z == DigitRun(unsigned)
    IN  IF Z = <<>> THEN NaN
        ELSE IF negative THEN Negate(MathInt(Zero, Z))
        ELSE MathInt(Zero, Z)

\* ------------------------------------------------------------ outcomes

NoString == [shape |-> "none", d |-> 0, s |-> 0, sep |-> "", tail |-> "",
             text |-> ""]

NoError == [cls |-> "none", msg |-> "", mentionsTimezone |-> FALSE]

\* An Error object: its class, its message, and whether the message has the
\* substring 'timezone' (what String.prototype.includes('timezone') answers).
Err(cls, msg, mentions) ==
    [cls |-> cls, msg |-> msg, mentionsTimezone |-> mentions]

\* What a call did: returned val, or threw err; logs are the console entries
\* it emitted, calls the formatTimestamp invocations it made.
Return(val, logs, calls) ==
    [kind |-> "return", val |-> val, err |-> NoError, logs |-> logs,
     calls |-> calls]

Throw(err, logs, calls) ==
    [kind |-> "throw", val |-> NoString, err |-> err, logs |-> logs,
     calls |-> calls]

\* ------------------------------------------------------------ validateTimestamp

MIN_TIMESTAMP == Zero

\* 47482 * 86400 = 4102444800: Jan 1, 2100.
MAX_TIMESTAMP == Num(47482, 0)

\* Mutant of OutOfRange: the upper bound itself is rejected.
OutOfRangeStrictUpper(timestamp) ==
    \/ IsNaN(timestamp)
    \/ Less(timestamp, MIN_TIMESTAMP)
    \/ ~Less(timestamp, MAX_TIMESTAMP)

\* The range test of validateTimestamp.
OutOfRange(timestamp) ==
    \/ IsNaN(timestamp)
    \/ Less(timestamp, MIN_TIMESTAMP)
    \/ Greater(timestamp, MAX_TIMESTAMP)

\* What validateTimestamp returns: a Number value, or null.
ValidateResult(kind, val) == [kind |-> kind, val |-> val]

\* Mutant of validateTimestamp: a string that does not parse raises.
validateTimestampThrowing(timestampStr) ==
    IF Falsy(timestampStr) \/ timestampStr.t # "string"
    THEN ValidateResult("throw", Null)
    ELSE LET timestamp == ParseInt(timestampStr.chars)
         IN  IF IsNaN(timestamp) THEN ValidateResult("throw", Null)
             ELSE IF OutOfRange(timestamp) THEN ValidateResult("return", Null)
             ELSE ValidateResult("return", Number(timestamp))

\* validateTimestamp(timestampStr).  parseInt raises nothing on a string, so
\* the catch clause that returns null is never entered.
validateTimestamp(timestampStr) ==
    IF Falsy(timestampStr) \/ timestampStr.t # "string"
    THEN ValidateResult("return", Null)
    ELSE LET timestamp == ParseInt(timestampStr.chars)
         IN  IF OutOfRange(timestamp) THEN ValidateResult("return", Null)
             ELSE ValidateResult("return", Number(timestamp))

\* ------------------------------------------------------------ host

\* The zones the model's time-zone data knows, with their offset from UTC in
\* seconds (daylight saving is left out: one offset per zone).
UtcOffset ==
    [z \in {"UTC", "Australia/Sydney", "America/New_York"} |->
        IF z = "UTC" THEN 0
        ELSE IF z = "Australia/Sydney" THEN 36000
        ELSE 0 - 18000]

KnownZones == DOMAIN UtcOffset

\* The zones a host of the model may have as its own.
HostZones == {"UTC", "Australia/Sydney"}

\* Identifiers no time-zone data has.
UnknownZones == {"Not/AZone", "my-timezone"}

\* Whether the identifier itself holds the substring 'timezone'.
ZoneIdMentionsTimezone(id) == id = "my-timezone"

\* A Date: a time value in seconds and milliseconds, or Invalid Date.
DateOf(sec, ms) == [valid |-> TRUE, sec |-> sec, ms |-> ms]

InvalidDate == [valid |-> FALSE, sec |-> Zero, ms |-> 0]

\* new Date(timestamp * 1000) for an integer timestamp >= 0: TimeClip leaves
\* Invalid Date for NaN, for an infinity and beyond 8.64e15 ms, which is
\* 100,000,000 days.
NewDate(timestamp) ==
    IF ~IsFinite(timestamp) \/ Greater(timestamp, Num(100000000, 0))
    THEN InvalidDate
    ELSE DateOf(timestamp, 0)

\* A host is [tz, zones, tzWord, localeParse, now]:
\*   tz           the host's own local time zone;
\*   zones        the identifiers its Intl implementation recognizes;
\*   tzWord       whether the message of the RangeError it raises for an
\*                unrecognized identifier has the substring 'timezone' besides
\*                the identifier (V8: "Invalid time zone specified: X", so no);
\*   localeParse  whether its Date parser reads the en-US locale string
\*                (parsing a non-ISO string is implementation-defined);
\*   now          the current instant.

\* The RangeError Intl raises for an identifier it does not recognize.
TimeZoneRangeError(host, timeZone) ==
    Err("RangeError", "time zone not recognized: " \o timeZone,
        host.tzWord \/ ZoneIdMentionsTimezone(timeZone))

Ok(val) == [ok |-> TRUE, val |-> val, err |-> NoError]

Fail(err) == [ok |-> FALSE, val |-> NoString, err |-> err]

\* The wall clock of a valid date in a recognized zone.
WallClock(date, timeZone) == AddSeconds(date.sec, UtcOffset[timeZone])

\* new Intl.DateTimeFormat('en-GB', {..., timeZone}).format(date): the fields
\* the options ask for, read off the zone's wall clock.  shape names the
\* option set; the seconds of the day are cut to what the options show.
IntlFormat(host, shape, timeZone, date) ==
    IF timeZone \notin host.zones THEN Fail(TimeZoneRangeError(host, timeZone))
    ELSE LET wall == WallClock(date, timeZone)
         IN  Ok([shape |-> shape, d |-> wall.d,
                 s |-> IF shape = "date" THEN 0 ELSE (wall.s \div 60) * 60,
                 sep |-> IF shape = "date" THEN "" ELSE ", ",
                 tail |-> "", text |-> ""])

\* String.prototype.replace(',', '') on a formatted string.
ReplaceComma(str) == IF str.sep = ", " THEN [str EXCEPT !.sep = " "] ELSE str

\* date.toLocaleString('en-US', {timeZone}): the zone's wall clock to the
\* second.
ToLocaleString(host, timeZone, date) ==
    IF timeZone \notin host.zones THEN Fail(TimeZoneRangeError(host, timeZone))
    ELSE LET wall == WallClock(date, timeZone)
         IN  Ok([shape |-> "locale", d |-> wall.d, s |-> wall.s, sep |-> ", ",
                 tail |-> "", text |-> ""])

\* new Date(localeString): the string names no zone, so it is read as a wall
\* clock of the host's own zone.
ParseLocaleString(host, str) ==
    IF host.localeParse
    THEN DateOf(AddSeconds(Num(str.d, str.s), 0 - UtcOffset[host.tz]), 0)
    ELSE InvalidDate

\* Date.prototype.toISOString: the UTC fields, milliseconds and a 'Z'.
ToISOString(date) ==
    IF ~date.valid THEN Fail(Err("RangeError", "Invalid time value", FALSE))
    ELSE Ok([shape |-> "iso", d |-> date.sec.d, s |-> date.sec.s, sep |-> "T",
             tail |-> IF date.ms = 0 THEN ".000Z" ELSE ".mmmZ", text |-> ""])

\* String.prototype.replace('.000Z', '').
Replace000Z(str) == IF str.tail = ".000Z" THEN [str EXCEPT !.tail = ""] ELSE str

\* ------------------------------------------------------------ getRelativeTime

\* Mutant of Round: the quotient is rounded down.
RoundDown(n, k) == n \div k

\* Math.round(n / k) for integers n and k > 0: floor(n / k + 1/2), a half
\* going up for either sign.
Round(n, k) == (n \div k) + (IF 2 * (n % k) >= k THEN 1 ELSE 0)

Abs(n) == IF n < 0 THEN 0 - n ELSE n

\* Mutant of IsFuture: a difference of zero counts as the future.
IsFutureOrNow(n) == n >= 0

\* The test of every conditional expression of getRelativeTime: diff > 0.
IsFuture(n) == n > 0

\* Mutant of Plural: a magnitude of zero is singular too.
PluralAboveOne(n, one) == IF n = one \/ n = 0 THEN "" ELSE "s"

\* The plural ending of a unit: none when n is one (1 in the branch of the
\* future, -1 in the branch of the past), 's' otherwise.
Plural(n, one) == IF n = one THEN "" ELSE "s"

\* "in n units" or "n units ago", singular when the magnitude is 1.
Phrase(n, unit) ==
    IF IsFuture(n)
    THEN "in " \o ToString(n) \o " " \o unit \o Plural(n, 1)
    ELSE ToString(0 - n) \o " " \o unit \o Plural(n, 0 - 1) \o " ago"

\* Mutant of Diffs: every unit is rounded from the milliseconds themselves
\* (whole is floor(diffMs / 1000)).
DiffsDirect(sec, ms) ==
    LET whole == IF ms < 0 THEN sec - 1 ELSE sec
    IN  [diffSec |-> sec + ((ms + 500) \div 1000),
         diffMin |-> (whole + 30) \div 60,
         diffHour |-> (whole + 1800) \div 3600,
         diffDay |-> (whole + 43200) \div 86400]

\* diffSec, diffMin, diffHour and diffDay of getRelativeTime for a
\* difference of sec * 1000 + ms milliseconds (the difference is kept in two
\* limbs, -1000 < ms < 1000).
Diffs(sec, ms) ==
    LET diffSec == sec + Round(ms, 1000)
        diffMin == Round(diffSec, 60)
        diffHour == Round(diffMin, 60)
        diffDay == Round(diffHour, 24)
    IN  [diffSec |-> diffSec, diffMin |-> diffMin, diffHour |-> diffHour,
         diffDay |-> diffDay]

\* Mutant of Bucket: the tests for minutes and hours take their bound in.
BucketInclusive(d) ==
    IF Abs(d.diffDay) >= 365 THEN Phrase(Round(d.diffDay, 365), "year")
    ELSE IF Abs(d.diffDay) >= 7 THEN Phrase(Round(d.diffDay, 7), "week")
    ELSE IF Abs(d.diffSec) < 60 THEN Phrase(d.diffSec, "second")
    ELSE IF Abs(d.diffMin) <= 60 THEN Phrase(d.diffMin, "minute")
    ELSE IF Abs(d.diffHour) <= 24 THEN Phrase(d.diffHour, "hour")
    ELSE Phrase(d.diffDay, "day")

\* Mutant of Bucket: there is no test for years.
BucketNoYears(d) ==
    IF Abs(d.diffDay) >= 7 THEN Phrase(Round(d.diffDay, 7), "week")
    ELSE IF Abs(d.diffSec) < 60 THEN Phrase(d.diffSec, "second")
    ELSE IF Abs(d.diffMin) < 60 THEN Phrase(d.diffMin, "minute")
    ELSE IF Abs(d.diffHour) < 24 THEN Phrase(d.diffHour, "hour")
    ELSE Phrase(d.diffDay, "day")

\* Mutant of Bucket: the tests for years and weeks leave their bound out.
BucketStrict(d) ==
    IF Abs(d.diffDay) > 365 THEN Phrase(Round(d.diffDay, 365), "year")
    ELSE IF Abs(d.diffDay) > 7 THEN Phrase(Round(d.diffDay, 7), "week")
    ELSE IF Abs(d.diffSec) < 60 THEN Phrase(d.diffSec, "second")
    ELSE IF Abs(d.diffMin) < 60 THEN Phrase(d.diffMin, "minute")
    ELSE IF Abs(d.diffHour) < 24 THEN Phrase(d.diffHour, "hour")
    ELSE Phrase(d.diffDay, "day")

\* The chain of tests of getRelativeTime on the four differences.
Bucket(d) ==
    IF Abs(d.diffDay) >= 365 THEN Phrase(Round(d.diffDay, 365), "year")
    ELSE IF Abs(d.diffDay) >= 7 THEN Phrase(Round(d.diffDay, 7), "week")
    ELSE IF Abs(d.diffSec) < 60 THEN Phrase(d.diffSec, "second")
    ELSE IF Abs(d.diffMin) < 60 THEN Phrase(d.diffMin, "minute")
    ELSE IF Abs(d.diffHour) < 24 THEN Phrase(d.diffHour, "hour")
    ELSE Phrase(d.diffDay, "day")

\* The phrase for a difference of sec * 1000 + ms milliseconds.
RelativePhrase(sec, ms) == Bucket(Diffs(sec, ms))

\* date.getTime() - now.getTime(), in whole seconds and milliseconds.
DiffMs(host, date) ==
    [sec |-> (date.sec.d - host.now.sec.d) * SECONDS_IN_DAY
                 + (date.sec.s - host.now.sec.s),
     ms |-> date.ms - host.now.ms]

\* getRelativeTime(date) at the host's current instant.
getRelativeTime(host, date) ==
    IF ~date.valid
    THEN Fail(Err("Error", "Invalid date provided to getRelativeTime", FALSE))
    ELSE Ok([shape |-> "relative", d |-> 0, s |-> 0, sep |-> "", tail |-> "",
             text |-> RelativePhrase(DiffMs(host, date).sec,
                                     DiffMs(host, date).ms)])

\* The local variables of getRelativeTime when it returns.
RelativeLocals(host, date) ==
    IF ~date.valid THEN Diffs(0, 0)
    ELSE Diffs(DiffMs(host, date).sec, DiffMs(host, date).ms)

\* ------------------------------------------------------------ formatTimestamp

\* Mutant of IsInvalidTimestamp: only the sign is tested.
IsInvalidTimestampSignOnly(timestamp) == Less(timestamp, Zero)

\* The first guard of formatTimestamp.
IsInvalidTimestamp(timestamp) == ~IsFinite(timestamp) \/ Less(timestamp, Zero)

\* Mutant of IsInvalidTimezone: only the type is tested.
IsInvalidTimezoneTypeOnly(timezone) == timezone.t # "string"

\* The second guard of formatTimestamp.
IsInvalidTimezone(timezone) == Falsy(timezone) \/ timezone.t # "string"

\* A parameter with a default value: the default replaces undefined only.
DefaultParam(value, default) == IF value.t = "undefined" THEN default ELSE value

\* Mutant of ModeBranch: a mode the switch does not name is rendered as a date.
ModeBranchDate(mode) ==
    IF mode.t = "string" /\ mode.id \in {"compact", "iso", "relative", "default"}
    THEN mode.id ELSE "date"

\* The case of the switch a mode value selects.
ModeBranch(mode) ==
    IF mode.t = "string" /\ mode.id \in {"date", "compact", "iso", "relative"}
    THEN mode.id ELSE "default"

\* The body of the try block: the date, then the rendering of its mode.
Render(host, timestamp, timezone, mode) ==
    LET date == NewDate(timestamp)
        branch == ModeBranch(mode)
    IN  IF ~date.valid
        THEN Fail(Err("Error", "Invalid timestamp: results in invalid date",
                      FALSE))
        ELSE IF branch = "date" THEN IntlFormat(host, "date", timezone.id, date)
        ELSE IF branch = "compact"
        THEN LET r == IntlFormat(host, "compact", timezone.id, date)
             IN  IF r.ok THEN Ok(ReplaceComma(r.val)) ELSE r
        ELSE IF branch = "iso"
        THEN LET str == ToLocaleString(host, timezone.id, date)
             IN  IF ~str.ok THEN str
                 ELSE LET iso == ToISOString(ParseLocaleString(host, str.val))
                      IN  IF iso.ok THEN Ok(Replace000Z(iso.val)) ELSE iso
        ELSE IF branch = "relative" THEN getRelativeTime(host, date)
        ELSE IntlFormat(host, "default", timezone.id, date)

\* Mutant of IsTimezoneError: every RangeError is taken for a timezone error.
IsTimezoneErrorAnyRange(error) == error.cls = "RangeError"

\* The test of the catch block:
\* error instanceof RangeError && error.message.includes('timezone').
IsTimezoneError(error) == error.cls = "RangeError" /\ error.mentionsTimezone

StackOverflow == Err("RangeError", "Maximum call stack size exceeded", FALSE)

RECURSIVE formatTimestampAt(_, _, _, _, _)
\* formatTimestamp(timestamp, timezone, mode) entered with depth frames of it
\* on the call stack.  The recursive call of the catch block stands outside
\* any try block of its own frame, so what it throws leaves the frame as is.
formatTimestampAt(depth, host, timestamp, timezoneArg, modeArg) ==
    LET timezone == DefaultParam(timezoneArg, Ident("UTC"))
        mode == DefaultParam(modeArg, Ident("default"))
    IN  IF depth >= MaxStack THEN Throw(StackOverflow, <<>>, 0)
        ELSE IF IsInvalidTimestamp(timestamp)
        THEN Throw(Err("Error",
                       "Invalid timestamp: must be a positive finite number",
                       FALSE), <<>>, 1)
        ELSE IF IsInvalidTimezone(timezone)
        THEN Throw(Err("Error", "Invalid timezone: must be a non-empty string",
                       TRUE), <<>>, 1)
        ELSE LET r == Render(host, timestamp, timezone, mode)
             IN  IF r.ok THEN Return(r.val, <<>>, 1)
                 ELSE IF IsTimezoneError(r.err)
                 THEN LET retry == formatTimestampAt(depth + 1, host, timestamp,
                                                     Ident("UTC"), mode)
                      IN  [retry EXCEPT
                              !.logs = <<"warn: Invalid timezone, falling back to UTC">>
                                       \o retry.logs,
                              !.calls = retry.calls + 1]
                 ELSE Throw(r.err, <<>>, 1)

\* formatTimestamp called by a caller of the module.
formatTimestamp(host, timestamp, timezone, mode) ==
    formatTimestampAt(0, host, timestamp, timezone, mode)

\* ------------------------------------------------------------ wrappers

\* Mutant of isValidTimestamp: the upper bound of validateTimestamp is
\* enforced as well.
isValidTimestampInRange(value) ==
    /\ value.t = "number"
    /\ IsFinite(value.num)
    /\ ~Less(value.num, Zero)
    /\ ~Greater(value.num, MAX_TIMESTAMP)

\* isValidTimestamp(value):
\* typeof value === 'number' && Number.isFinite(value) && value >= 0.
isValidTimestamp(value) ==
    /\ value.t = "number"
    /\ IsFinite(value.num)
    /\ ~Less(value.num, Zero)

\* A string that is no rendering of a date: the text itself.
Text(id) == [shape |-> "text", d |-> 0, s |-> 0, sep |-> "", tail |-> "",
             text |-> id]

NoConversion == [timestamp |-> Zero, formattedDate |-> NoString,
                 timezone |-> Undefined, mode |-> Undefined]

\* Mutant of convertTimestamp: the formatter is called for 'UTC' whatever
\* the timezone is.
convertTimestampForUTC(host, timestamp, timezoneArg, modeArg) ==
    LET timezone == DefaultParam(timezoneArg, Ident("UTC"))
        mode == DefaultParam(modeArg, Ident("default"))
        f == formatTimestamp(host, timestamp, Ident("UTC"), mode)
        invoked == <<[timestamp |-> timestamp, timezone |-> Ident("UTC"),
                      mode |-> mode]>>
    IN  IF f.kind = "throw"
        THEN [kind |-> "throw", val |-> NoConversion, err |-> f.err,
              logs |-> f.logs, invoked |-> invoked]
        ELSE [kind |-> "return",
              val |-> [timestamp |-> timestamp, formattedDate |-> f.val,
                       timezone |-> timezone, mode |-> mode],
              err |-> NoError, logs |-> f.logs, invoked |-> invoked]

\* convertTimestamp(timestamp, timezone, mode): one call of formatTimestamp
\* outside any try block, then the record.  invoked lists the calls of
\* formatTimestamp that convertTimestamp itself makes.
convertTimestamp(host, timestamp, timezoneArg, modeArg) ==
    LET timezone == DefaultParam(timezoneArg, Ident("UTC"))
        mode == DefaultParam(modeArg, Ident("default"))
        f == formatTimestamp(host, timestamp, timezone, mode)
        invoked == <<[timestamp |-> timestamp, timezone |-> timezone,
                      mode |-> mode]>>
    IN  IF f.kind = "throw"
        THEN [kind |-> "throw", val |-> NoConversion, err |-> f.err,
              logs |-> f.logs, invoked |-> invoked]
        ELSE [kind |-> "return",
              val |-> [timestamp |-> timestamp, formattedDate |-> f.val,
                       timezone |-> timezone, mode |-> mode],
              err |-> NoError, logs |-> f.logs, invoked |-> invoked]

\* Mutant of safeFormatTimestamp: only an Error that is no RangeError is
\* caught.
safeFormatRethrowing(host, timestamp, timezoneArg, modeArg, fallbackArg) ==
    LET timezone == DefaultParam(timezoneArg, Ident("UTC"))
        mode == DefaultParam(modeArg, Ident("default"))
        fallback == DefaultParam(fallbackArg, Ident("Invalid timestamp"))
        f == formatTimestamp(host, timestamp, timezone, mode)
    IN  IF f.kind = "return" \/ f.err.cls = "RangeError" THEN f
        ELSE Return(Text(fallback.id),
                    f.logs \o <<"error: Error formatting timestamp:">>,
                    f.calls)

\* Mutant of safeFormatTimestamp: the fallback is returned with no
\* console.error.
safeFormatSilent(host, timestamp, timezoneArg, modeArg, fallbackArg) ==
    LET timezone == DefaultParam(timezoneArg, Ident("UTC"))
        mode == DefaultParam(modeArg, Ident("default"))
        fallback == DefaultParam(fallbackArg, Ident("Invalid timestamp"))
        f == formatTimestamp(host, timestamp, timezone, mode)
    IN  IF f.kind = "return" THEN f
        ELSE Return(Text(fallback.id), f.logs, f.calls)

\* safeFormatTimestamp(timestamp, timezone, mode, fallback): what
\* formatTimestamp returns, or, when it throws, a console.error entry and
\* the fallback.
safeFormatTimestamp(host, timestamp, timezoneArg, modeArg, fallbackArg) ==
    LET timezone == DefaultParam(timezoneArg, Ident("UTC"))
        mode == DefaultParam(modeArg, Ident("default"))
        fallback == DefaultParam(fallbackArg, Ident("Invalid timestamp"))
        f == formatTimestamp(host, timestamp, timezone, mode)
    IN  IF f.kind = "return" THEN f
        ELSE Return(Text(fallback.id),
                    f.logs \o <<"error: Error formatting timestamp:">>,
                    f.calls)

\* ------------------------------------------------------------ timestamp page

\* isValidDisplayMode(mode) of the page: one of the five literals.
isValidDisplayMode(mode) ==
    mode.t = "string"
        /\ mode.id \in {"default", "date", "compact", "iso", "relative"}

\* Mutant of PageMode: every 'mode' value that is not empty is passed on.
PageModeAsGiven(modeParam) ==
    IF ~Falsy(modeParam) THEN modeParam ELSE Ident("default")

\* The mode of the page:
\* modeParam && isValidDisplayMode(modeParam) ? modeParam : 'default'.
PageMode(modeParam) ==
    IF ~Falsy(modeParam) /\ isValidDisplayMode(modeParam) THEN modeParam
    ELSE Ident("default")

\* getBrowserTimezone(): the zone Intl resolves for the host, 'UTC' when it
\* resolves none.
getBrowserTimezone(host) == IF host.tz = "" THEN "UTC" ELSE host.tz

\* The page before it is mounted.
NoPage ==
    [mounted |-> FALSE, route |-> Str(<<>>), modeParam |-> Null,
     timestamp |-> Null, mode |-> Ident("default"), selectedTimezone |-> "",
     formattedDate |-> NoString, error |-> "", isLoading |-> TRUE,
     effectPending |-> FALSE, lastFormat |-> <<>>]

\* The first render of TimestampPage for a route and a 'mode' query value:
\* the memoized timestamp, the mode and the initial state; the effect is
\* still to run.
FirstRender(route, modeParam) ==
    [mounted |-> TRUE, route |-> route, modeParam |-> modeParam,
     timestamp |-> validateTimestamp(route).val, mode |-> PageMode(modeParam),
     selectedTimezone |-> "", formattedDate |-> NoString, error |-> "",
     isLoading |-> TRUE, effectPending |-> TRUE, lastFormat |-> <<>>]

\* A call of formatTimestamp by the page, as lastFormat keeps it.
PageCall(host, timestamp, timezone, mode) ==
    <<[host |-> host, timestamp |-> timestamp, timezone |-> timezone,
       mode |-> mode]>>

\* The test !timestamp of the effect and of handleTimezoneChange.
IsRejected(timestamp) == Falsy(timestamp)

\* The body of the effect of the page.
MountEffect(host, p) ==
    IF IsRejected(p.timestamp)
    THEN [p EXCEPT !.error = "Invalid timestamp provided",
                   !.isLoading = FALSE, !.effectPending = FALSE]
    ELSE LET browserTimezone == getBrowserTimezone(host)
             f == formatTimestamp(host, p.timestamp.num,
                                  Ident(browserTimezone), p.mode)
             q == [p EXCEPT !.selectedTimezone = browserTimezone,
                            !.isLoading = FALSE, !.effectPending = FALSE,
                            !.lastFormat = PageCall(host, p.timestamp.num,
                                                    browserTimezone, p.mode)]
         IN  IF f.kind = "return"
             THEN [q EXCEPT !.formattedDate = f.val, !.error = ""]
             ELSE [q EXCEPT
                      !.error = "Failed to format timestamp. Please try again."]

\* handleTimezoneChange(timezone) on the page in state p.
handleTimezoneChange(host, p, timezone) ==
    IF timezone = "" \/ IsRejected(p.timestamp) THEN p
    ELSE LET f == formatTimestamp(host, p.timestamp.num, Ident(timezone),
                                  p.mode)
             q == [p EXCEPT !.selectedTimezone = timezone,
                            !.lastFormat = PageCall(host, p.timestamp.num,
                                                    timezone, p.mode)]
         IN  IF f.kind = "return"
             THEN [q EXCEPT !.formattedDate = f.val, !.error = ""]
             ELSE [q EXCEPT
                      !.error = "Failed to change timezone. Please try again."]

\* The page shows the timezone selector: it is not loading, has no error and
\* has a formatted date.
SelectorShown(p) ==
    p.mounted /\ ~p.isLoading /\ p.error = "" /\ p.formattedDate # NoString

\* ------------------------------------------------------------ timezone lists

\* The timezone names of the model in ascending order of their UTF-16 code
\* units, the order of Array.prototype.sort() called without a comparator.
ZoneOrder ==
    << "", "America/Chicago", "America/Denver", "America/Los_Angeles",
       "America/New_York", "America/Toronto", "Asia/Shanghai", "Asia/Tokyo",
       "Australia/Adelaide", "Australia/Brisbane", "Australia/Darwin",
       "Australia/Melbourne", "Australia/Perth", "Australia/Sydney",
       "Europe/Berlin", "Europe/London", "Europe/Paris", "GMT",
       "Pacific/Auckland", "UTC" >>

Rank(name) == CHOOSE i \in 1..Len(ZoneOrder) : ZoneOrder[i] = name

\* names.sort(): the least name first, then the others sorted.
RECURSIVE SortNames(_)
SortNames(names) ==
    IF names = <<>> THEN <<>>
    ELSE LET least == CHOOSE i \in 1..Len(names) :
                          \A j \in 1..Len(names) : Rank(names[i]) <= Rank(names[j])
             others == [k \in 1..(Len(names) - 1) |->
                           IF k < least THEN names[k] ELSE names[k + 1]]
         IN  <<names[least]>> \o SortNames(others)

\* tz.includes('/') on the names of the model.
HasSlash(name) == name \notin {"", "GMT", "UTC"}

\* The values of commonTimezones group by group; the display names of the
\* options play no part in the lists.
commonTimezones ==
    << [label |-> "Australia",
        timezones |-> << "Australia/Sydney", "Australia/Melbourne",
                         "Australia/Brisbane", "Australia/Perth",
                         "Australia/Adelaide", "Australia/Darwin" >>],
       [label |-> "New Zealand", timezones |-> << "Pacific/Auckland" >>],
       [label |-> "United Kingdom", timezones |-> << "Europe/London" >>],
       [label |-> "United States",
        timezones |-> << "America/New_York", "America/Chicago",
                         "America/Denver", "America/Los_Angeles" >>] >>

FALLBACK_TIMEZONES ==
    << "UTC", "America/New_York", "America/Chicago", "America/Denver",
       "America/Los_Angeles", "Europe/London", "Europe/Paris", "Europe/Berlin",
       "Asia/Tokyo", "Asia/Shanghai", "Australia/Sydney",
       "Australia/Melbourne", "Pacific/Auckland" >>

\* Cache TTL in milliseconds (5 minutes).
CACHE_TTL == 5 * 60 * 1000

\* The instant whose Date.now() is 0.
Epoch == DateOf(Zero, 0)

\* An array of names made at the instant born.  Two arrays are the same
\* object when they were made by the same computation, and a computation is
\* known by its instant.
List(items, born) == [isNull |-> FALSE, items |-> items, born |-> born]

NoList == [isNull |-> TRUE, items |-> <<>>, born |-> Epoch]

\* An array of groups made at the instant born.
Groups(groups, born) == [isNull |-> FALSE, groups |-> groups, born |-> born]

NoGroups == [isNull |-> TRUE, groups |-> <<>>, born |-> Epoch]

\* timezoneCache when the module is loaded and after clearTimezoneCache.
EmptyCache ==
    [allTimezones |-> NoList, timezoneGroups |-> NoGroups, lastUpdated |-> Epoch]

\* Date.now() - lastUpdated < limit, the difference taken in seconds and
\* milliseconds.
ElapsedLess(current, lastUpdated, limit) ==
    LET sec == (current.sec.d - lastUpdated.sec.d) * SECONDS_IN_DAY
                   + (current.sec.s - lastUpdated.sec.s)
        ms == current.ms - lastUpdated.ms
    IN  IF sec > (limit \div 1000) + 1 THEN FALSE
        ELSE IF sec < 0 - 1 THEN TRUE
        ELSE sec * 1000 + ms < limit

\* Mutant of isCacheValid: no entry is ever valid.
isCacheValidNever(current, cache) == FALSE

isCacheValid(current, cache) ==
    ElapsedLess(current, cache.lastUpdated, CACHE_TTL)

\* What Intl.supportedValuesOf does on a host: it is missing (or Intl is), it
\* throws, it returns something that is no array, or it returns a list.
Unsupported == [kind |-> "missing", list |-> <<>>]

Raising == [kind |-> "throws", list |-> <<>>]

NotAnArray == [kind |-> "notArray", list |-> <<>>]

Supported(list) == [kind |-> "list", list |-> list]

\* The strings of a list of names, as JS values.
Strings(names) == [i \in DOMAIN names |-> Ident(names[i])]

\* The names of a list of strings.
NamesOf(values) == [i \in DOMAIN values |-> values[i].id]

mockSupportedTimezones ==
    Strings(<< "America/New_York", "America/Chicago", "America/Denver",
               "America/Los_Angeles", "Europe/London", "Australia/Sydney",
               "Australia/Melbourne", "Australia/Brisbane", "Australia/Perth",
               "Australia/Adelaide", "Australia/Darwin", "Pacific/Auckland",
               "Asia/Tokyo", "Europe/Paris", "America/Toronto" >>)

\* Mutant of IsValidEntry: nothing is filtered out.
IsValidEntryAny(tz) == TRUE

\* typeof tz === 'string' && tz.length > 0 && tz.includes('/')
IsValidEntry(tz) == tz.t = "string" /\ tz.id # "" /\ HasSlash(tz.id)

\* What a getter did: the value it returned, the cache it left, its console
\* entries, and whether it called Intl.supportedValuesOf.
Got(result, cache, logs, queried) ==
    [result |-> result, cache |-> cache, logs |-> logs, queried |-> queried]

\* The four places where getAllTimezones takes the fallback list.
UseFallback(current, cache, log, queried) ==
    LET fallback == List(FALLBACK_TIMEZONES, current)
    IN  Got(fallback,
            [cache EXCEPT !.allTimezones = fallback, !.lastUpdated = current],
            <<log>>, queried)

\* getAllTimezones() at the instant current.
getAllTimezones(current, cache, capability) ==
    IF ~cache.allTimezones.isNull /\ isCacheValid(current, cache)
    THEN Got(cache.allTimezones, cache, <<>>, FALSE)
    ELSE IF capability.kind = "missing"
    THEN UseFallback(current, cache,
             "warn: Intl.supportedValuesOf not available, using fallback timezones",
             FALSE)
    ELSE IF capability.kind = "throws"
    THEN UseFallback(current, cache,
             "warn: Error getting timezones from Intl API, using fallback:",
             TRUE)
    ELSE IF capability.kind = "notArray" \/ Len(capability.list) = 0
    THEN UseFallback(current, cache,
             "warn: Intl.supportedValuesOf returned invalid data, using fallback timezones",
             TRUE)
    ELSE LET validTimezones == SelectSeq(capability.list, IsValidEntry)
         IN  IF Len(validTimezones) = 0
             THEN UseFallback(current, cache,
                      "warn: No valid timezones found, using fallback timezones",
                      TRUE)
             ELSE LET sortedTimezones ==
                          List(SortNames(NamesOf(validTimezones)), current)
                  IN  Got(sortedTimezones,
                          [cache EXCEPT !.allTimezones = sortedTimezones,
                                        !.lastUpdated = current],
                          <<>>, TRUE)

\* The values of all the options of commonTimezones.
commonTimezoneValues ==
    UNION { {commonTimezones[g].timezones[i] :
                 i \in DOMAIN commonTimezones[g].timezones} :
            g \in DOMAIN commonTimezones }

IsNotCommon(tz) == tz \notin commonTimezoneValues

\* getTimezoneGroups() at the instant current.  Nothing in its try block can
\* throw, getAllTimezones catching everything itself.
getTimezoneGroups(current, cache, capability) ==
    IF ~cache.timezoneGroups.isNull /\ isCacheValid(current, cache)
    THEN Got(cache.timezoneGroups, cache, <<>>, FALSE)
    ELSE LET all == getAllTimezones(current, cache, capability)
             otherTimezones == SelectSeq(all.result.items, IsNotCommon)
             result ==
                 Groups(commonTimezones
                            \o << [label |-> "All Other Timezones",
                                   timezones |-> otherTimezones] >>,
                        current)
         IN  Got(result,
                 [all.cache EXCEPT !.timezoneGroups = result,
                                   !.lastUpdated = current],
                 all.logs, all.queried)

\* clearTimezoneCache()
clearTimezoneCache(cache) == EmptyCache

\* ------------------------------------------------------------ state

VARIABLES
    hostTimeZone,   \* the host's own local time zone
    engine,         \* [noZones, tzWord, noLocaleParse] of the host's Intl and Date
    now,            \* the current instant, a Date
    op,             \* the function called last
    arg,            \* its arguments, and the host as it was at the call
    out,            \* what it did
    page,           \* the state of the timestamp page, mounted or not
    timezoneCache,  \* the module variable timezoneCache of the timezone lists
    intl            \* what the host's Intl.supportedValuesOf does

vars == <<hostTimeZone, engine, now, op, arg, out, page, timezoneCache, intl>>

Host == [tz |-> hostTimeZone,
         zones |-> IF engine.noZones THEN {} ELSE KnownZones,
         tzWord |-> engine.tzWord,
         localeParse |-> ~engine.noLocaleParse,
         now |-> now]

\* ------------------------------------------------------------ inputs

Alphabet == {"0", "1", "9", "-", "+", " ", ".", "a"}

RECURSIVE StringsOfLength(_)
StringsOfLength(n) ==
    IF n = 0 THEN {<<>>}
    ELSE {<<c>> \o s : c \in Alphabet, s \in StringsOfLength(n - 1)}

ShortStrings == UNION {StringsOfLength(n) : n \in 0..MaxLen}

\* The strings of the unit tests and the neighbours of the upper bound.
LongStrings ==
    { <<"1", "7", "4", "7", "5", "1", "0", "6", "0", "0">>,
      <<"4", "1", "0", "2", "4", "4", "4", "8", "0", "0">>,
      <<"4", "1", "0", "2", "4", "4", "4", "8", "0", "1">>,
      <<"4", "1", "0", "2", "4", "4", "4", "7", "9", "9">>,
      <<"0", "4", "1", "0", "2", "4", "4", "4", "8", "0", "0">>,
      <<"4", "1", "0", "2", "4", "4", "4", "8", "0", "0", "0">>,
      <<"-", "4", "1", "0", "2", "4", "4", "4", "8", "0", "0">>,
      <<" ", "4", "1", "0", "2", "4", "4", "4", "8", "0", "0">>,
      <<"4", "1", "0", "2", "4", "4", "4", "8", "0", "0", ".", "9">>,
      <<"i", "n", "v", "a", "l", "i", "d">> }

RawInputs ==
    {Str(s) : s \in ShortStrings \cup LongStrings}
        \cup {Null, Undefined, Number(FromInt(5))}

\* 1747510600 = 20225 * 86400 + 70600; the last is past the last valid Date.
Timestamps ==
    { NaN, PosInf, NegInf, FromInt(0 - 1), Zero, Num(20225, 70600),
      MAX_TIMESTAMP, Num(100000000, 1) }

TimezoneArgs ==
    {Ident(z) : z \in KnownZones \cup UnknownZones \cup {""}}
        \cup {Null, Undefined, Number(FromInt(5))}

DisplayModes == {"default", "date", "compact", "iso", "relative"}

ModeArgs == {Ident(m) : m \in DisplayModes \cup {"bogus"}} \cup {Undefined}

\* The hosts' engines: noZones is a host whose Intl recognizes no identifier
\* at all (no time-zone data, or an Intl put in its place), tzWord and
\* noLocaleParse are the two implementation-defined answers of a host.
Engines ==
    [noZones : BOOLEAN, tzWord : BOOLEAN, noLocaleParse : BOOLEAN]

\* 2035-01-01T00:00:00.000Z and instants after it.  Every timestamp of the
\* model that makes a valid Date is less than 2^31 seconds away from them.
Clocks ==
    { DateOf(Num(23741, 0), 0), DateOf(Num(23741, 29), 500) }

Later(a, b) ==
    Less(b.sec, a.sec) \/ (a.sec = b.sec /\ a.ms > b.ms)

\* ------------------------------------------------------------ behaviour

Init ==
    /\ hostTimeZone \in HostZones
    /\ engine \in Engines
    /\ now = DateOf(Num(23741, 0), 0)
    /\ op = "none"
    /\ arg = <<>>
    /\ out = <<>>
    /\ page = NoPage
    /\ timezoneCache = EmptyCache
    /\ intl = Supported(mockSupportedTimezones)

\* A caller calls validateTimestamp(raw).
ValidateTimestamp(raw) ==
    /\ op = "none"
    /\ op' = "validateTimestamp"
    /\ arg' = [raw |-> raw]
    /\ out' = validateTimestamp(raw)
    /\ UNCHANGED <<hostTimeZone, engine, now, page, timezoneCache, intl>>

\* A caller calls formatTimestamp(timestamp, timezone, mode); an argument
\* left out is undefined.
FormatTimestamp(timestamp, timezone, mode) ==
    /\ op = "none"
    /\ op' = "formatTimestamp"
    /\ arg' = [host |-> Host, timestamp |-> timestamp, timezone |-> timezone,
               mode |-> mode]
    /\ out' = formatTimestamp(Host, timestamp, timezone, mode)
    /\ UNCHANGED <<hostTimeZone, engine, now, page, timezoneCache, intl>>

\* The caller makes its last call again, with the same arguments.
CallAgain ==
    /\ op # "none"
    /\ arg' = IF op = "validateTimestamp" THEN arg
              ELSE [arg EXCEPT !.host = Host]
    /\ out' = IF op = "validateTimestamp" THEN validateTimestamp(arg.raw)
              ELSE formatTimestamp(Host, arg.timestamp, arg.timezone, arg.mode)
    /\ UNCHANGED <<hostTimeZone, engine, now, op, page, timezoneCache, intl>>

\* The caller drops the result and is free to make another call.
Discard ==
    /\ op # "none"
    /\ op' = "none"
    /\ arg' = <<>>
    /\ out' = <<>>
    /\ UNCHANGED <<hostTimeZone, engine, now, page, timezoneCache, intl>>

\* The host's local time zone changes (the user travels, TZ is set anew).
SetHostTimeZone(z) ==
    /\ z # hostTimeZone
    /\ hostTimeZone' = z
    /\ UNCHANGED <<engine, now, op, arg, out, page, timezoneCache, intl>>

\* Time passes.
Tick(t) ==
    /\ Later(t, now)
    /\ now' = t
    /\ UNCHANGED <<hostTimeZone, engine, op, arg, out, page, timezoneCache, intl>>

Next ==
    \/ \E raw \in RawInputs : ValidateTimestamp(raw)
    \/ \E timestamp \in Timestamps, timezone \in TimezoneArgs, mode \in ModeArgs :
          FormatTimestamp(timestamp, timezone, mode)
    \/ CallAgain
    \/ Discard
    \/ \E z \in HostZones : SetHostTimeZone(z)
    \/ \E t \in Clocks : Tick(t)

Spec == Init /\ [][Next]_vars

\* ------------------------------------------------------------ relative time

\* How far, in seconds, the targets stand on either side of a boundary of
\* the relative-time algorithm.
MaxDelta == 1

\* Distances in seconds at which seconds, minutes, hours, days, weeks and
\* years begin, and the halves between them where a rounding turns.
Boundaries ==
    { 0, 30, 60, 90, 3570, 3600, 5370, 84600, 86400, 129600, 561600, 604800,
      907200, 31449600, 31536000, 47260800, 47304000 }

\* The signed distances of the targets from 2035-01-01T00:00:00Z.
Distances ==
    {sign * (b + delta) :
        sign \in {0 - 1, 1}, b \in Boundaries, delta \in (0 - MaxDelta)..MaxDelta}

\* new Date(timestamp * 1000) for the timestamps around the boundaries: whole
\* seconds, as formatTimestamp hands them to getRelativeTime.
TargetDates == {DateOf(AddSeconds(Num(23741, 0), k), 0) : k \in Distances}

\* The instants new Date() may answer inside getRelativeTime: on the second,
\* and around the half of a second.
RelativeClocks == {DateOf(Num(23741, 0), ms) : ms \in {0, 499, 500, 501}}

RelativeInit ==
    /\ hostTimeZone \in HostZones
    /\ engine \in {e \in Engines : ~e.noZones /\ ~e.tzWord /\ ~e.noLocaleParse}
    /\ now \in RelativeClocks
    /\ op = "none"
    /\ arg = <<>>
    /\ out = <<>>
    /\ page = NoPage
    /\ timezoneCache = EmptyCache
    /\ intl = Supported(mockSupportedTimezones)

\* formatTimestamp in relative mode calls getRelativeTime(date); what is kept
\* of the call are its result and its local variables.
GetRelativeTime(date) ==
    /\ op = "none"
    /\ op' = "getRelativeTime"
    /\ arg' = [host |-> Host, date |-> date]
    /\ out' = [result |-> getRelativeTime(Host, date),
               locals |-> RelativeLocals(Host, date)]
    /\ UNCHANGED <<hostTimeZone, engine, now, page, timezoneCache, intl>>

\* The result is dropped.
RelativeDiscard ==
    /\ op = "getRelativeTime"
    /\ op' = "none"
    /\ arg' = <<>>
    /\ out' = <<>>
    /\ UNCHANGED <<hostTimeZone, engine, now, page, timezoneCache, intl>>

RelativeNext ==
    \/ \E date \in TargetDates : GetRelativeTime(date)
    \/ RelativeDiscard

RelativeSpec == RelativeInit /\ [][RelativeNext]_vars

\* ------------------------------------------------------------ calls of the wrappers

\* The fallback argument of safeFormatTimestamp: left out, or a string.
FallbackArgs == {Undefined, Ident("Error occurred"), Ident("")}

\* What isValidTimestamp is asked about: numbers, among them the first one
\* past MAX_TIMESTAMP, numeric strings, null and undefined.
GuardInputs ==
    {Number(t) : t \in Timestamps \cup {AddSeconds(MAX_TIMESTAMP, 1)}}
        \cup {Str(s) : s \in LongStrings}
        \cup {Null, Undefined}

WrapperInit ==
    /\ hostTimeZone \in HostZones
    /\ engine \in Engines
    /\ now = DateOf(Num(23741, 0), 0)
    /\ op = "none"
    /\ arg = <<>>
    /\ out = <<>>
    /\ page = NoPage
    /\ timezoneCache = EmptyCache
    /\ intl = Supported(mockSupportedTimezones)

\* A caller calls safeFormatTimestamp(timestamp, timezone, mode, fallback).
SafeFormatTimestamp(timestamp, timezone, mode, fallback) ==
    /\ op = "none"
    /\ op' = "safeFormatTimestamp"
    /\ arg' = [host |-> Host, timestamp |-> timestamp, timezone |-> timezone,
               mode |-> mode, fallback |-> fallback]
    /\ out' = safeFormatTimestamp(Host, timestamp, timezone, mode, fallback)
    /\ UNCHANGED <<hostTimeZone, engine, now, page, timezoneCache, intl>>

\* A caller calls convertTimestamp(timestamp, timezone, mode).
ConvertTimestamp(timestamp, timezone, mode) ==
    /\ op = "none"
    /\ op' = "convertTimestamp"
    /\ arg' = [host |-> Host, timestamp |-> timestamp, timezone |-> timezone,
               mode |-> mode]
    /\ out' = convertTimestamp(Host, timestamp, timezone, mode)
    /\ UNCHANGED <<hostTimeZone, engine, now, page, timezoneCache, intl>>

\* A caller calls isValidTimestamp(value).
IsValidTimestamp(value) ==
    /\ op = "none"
    /\ op' = "isValidTimestamp"
    /\ arg' = [value |-> value]
    /\ out' = isValidTimestamp(value)
    /\ UNCHANGED <<hostTimeZone, engine, now, page, timezoneCache, intl>>

\* The caller drops the result.
WrapperDiscard ==
    /\ op \in {"safeFormatTimestamp", "convertTimestamp", "isValidTimestamp"}
    /\ op' = "none"
    /\ arg' = <<>>
    /\ out' = <<>>
    /\ UNCHANGED <<hostTimeZone, engine, now, page, timezoneCache, intl>>

WrapperNext ==
    \/ \E timestamp \in Timestamps, timezone \in TimezoneArgs,
          mode \in ModeArgs, fallback \in FallbackArgs :
          SafeFormatTimestamp(timestamp, timezone, mode, fallback)
    \/ \E timestamp \in Timestamps, timezone \in TimezoneArgs,
          mode \in ModeArgs : ConvertTimestamp(timestamp, timezone, mode)
    \/ \E value \in GuardInputs : IsValidTimestamp(value)
    \/ WrapperDiscard

WrapperSpec == WrapperInit /\ [][WrapperNext]_vars

\* ------------------------------------------------------------ the page at work

\* The route segments the page is opened with: the strings of the unit tests
\* and every string of one character.
Routes == {Str(r) : r \in LongStrings \cup StringsOfLength(1)}

\* The 'mode' query value: missing, empty, one of the five, or another.
ModeParams == {Null} \cup {Ident(m) : m \in DisplayModes \cup {"", "bogus"}}

\* The values of the options of the selector: the empty option and zones.
SelectorOptions == KnownZones \cup UnknownZones \cup {""}

PageInit ==
    /\ hostTimeZone \in HostZones
    /\ engine \in Engines
    /\ now = DateOf(Num(23741, 0), 0)
    /\ op = "none"
    /\ arg = <<>>
    /\ out = <<>>
    /\ page = NoPage
    /\ timezoneCache = EmptyCache
    /\ intl = Supported(mockSupportedTimezones)

\* The page is opened at /<route>?mode=<modeParam>.
Mount(route, modeParam) ==
    /\ ~page.mounted
    /\ page' = FirstRender(route, modeParam)
    /\ UNCHANGED <<hostTimeZone, engine, now, op, arg, out, timezoneCache, intl>>

\* The effect runs after the render.
RunEffect ==
    /\ page.mounted
    /\ page.effectPending
    /\ page' = MountEffect(Host, page)
    /\ UNCHANGED <<hostTimeZone, engine, now, op, arg, out, timezoneCache, intl>>

\* The user picks an option of the selector.
HandleTimezoneChange(timezone) ==
    /\ SelectorShown(page)
    /\ ~page.effectPending
    /\ page' = handleTimezoneChange(Host, page, timezone)
    /\ UNCHANGED <<hostTimeZone, engine, now, op, arg, out, timezoneCache, intl>>

\* The page is left.
Unmount ==
    /\ page.mounted
    /\ page' = NoPage
    /\ UNCHANGED <<hostTimeZone, engine, now, op, arg, out, timezoneCache, intl>>

PageNext ==
    \/ \E route \in Routes, modeParam \in ModeParams : Mount(route, modeParam)
    \/ RunEffect
    \/ \E timezone \in SelectorOptions : HandleTimezoneChange(timezone)
    \/ Unmount
    \/ \E z \in HostZones : SetHostTimeZone(z)

PageSpec == PageInit /\ [][PageNext]_vars

\* ------------------------------------------------------------ the lists over time

\* Lists an Intl.supportedValuesOf may hand out: entries that are no
\* timezone names, names among other things, and a name listed twice.
InvalidOnly ==
    << Ident("UTC"), Ident("GMT"), Ident(""), Number(FromInt(7)), Null >>

Mixed ==
    << Ident("Europe/Paris"), Ident("GMT"), Ident("Asia/Tokyo"),
       Number(FromInt(7)), Ident("America/New_York"), Ident("") >>

Repeating ==
    << Ident("Asia/Tokyo"), Ident("Europe/Paris"), Ident("Asia/Tokyo") >>

Capabilities ==
    { Unsupported, Raising, NotAnArray, Supported(<<>>), Supported(InvalidOnly),
      Supported(mockSupportedTimezones), Supported(Mixed), Supported(Repeating) }

\* The minutes gone since the first instant of the model.
Minutes == (now.sec.s \div 60) + (now.sec.d - 23741) * 1440

CacheInit ==
    /\ hostTimeZone = "UTC"
    /\ engine = [noZones |-> FALSE, tzWord |-> FALSE, noLocaleParse |-> FALSE]
    /\ now = DateOf(Num(23741, 0), 0)
    /\ op = "none"
    /\ arg = <<>>
    /\ out = <<>>
    /\ page = NoPage
    /\ timezoneCache = EmptyCache
    /\ intl \in Capabilities

\* What a call found: the instant, the cache and the host's capability.
Found == [now |-> now, cache |-> timezoneCache, intl |-> intl]

\* A caller calls getAllTimezones().
GetAllTimezones ==
    LET got == getAllTimezones(now, timezoneCache, intl)
    IN  /\ op' = "getAllTimezones"
        /\ arg' = Found
        /\ out' = [result |-> got.result, logs |-> got.logs,
                   queried |-> got.queried]
        /\ timezoneCache' = got.cache
        /\ UNCHANGED <<hostTimeZone, engine, now, page, intl>>

\* A caller calls getTimezoneGroups().
GetTimezoneGroups ==
    LET got == getTimezoneGroups(now, timezoneCache, intl)
    IN  /\ op' = "getTimezoneGroups"
        /\ arg' = Found
        /\ out' = [result |-> got.result, logs |-> got.logs,
                   queried |-> got.queried]
        /\ timezoneCache' = got.cache
        /\ UNCHANGED <<hostTimeZone, engine, now, page, intl>>

\* A caller calls clearTimezoneCache().
ClearTimezoneCache ==
    /\ op' = "clearTimezoneCache"
    /\ arg' = Found
    /\ out' = <<>>
    /\ timezoneCache' = clearTimezoneCache(timezoneCache)
    /\ UNCHANGED <<hostTimeZone, engine, now, page, intl>>

\* A minute passes.
CacheTick ==
    /\ Minutes < MaxMinutes
    /\ now' = [now EXCEPT !.sec = AddSeconds(now.sec, 60)]
    /\ UNCHANGED <<hostTimeZone, engine, op, arg, out, page, timezoneCache, intl>>

CacheNext ==
    \/ GetAllTimezones
    \/ GetTimezoneGroups
    \/ ClearTimezoneCache
    \/ CacheTick

CacheSpec == CacheInit /\ [][CacheNext]_vars

\* ------------------------------------------------------------ reading numerals

\* What the claims say of a string is computed here on its digits, apart
\* from the arithmetic of ParseInt and OutOfRange.

\* The string without an optional leading sign.
SignStripped(str) ==
    IF str # <<>> /\ str[1] \in {"+", "-"} THEN SubSeq(str, 2, Len(str)) ELSE str

\* The leading run of digits of a string.
LeadingDigits(str) ==
    LET n == CHOOSE k \in 0..Len(str) :
                 /\ \A i \in 1..k : IsDigit(str[i])
                 /\ k = Len(str) \/ ~IsDigit(str[k + 1])
    IN  SubSeq(str, 1, n)

\* The string without its leading blanks.
BlanksSkipped(str) ==
    LET n == CHOOSE k \in 0..Len(str) :
                 /\ \A i \in 1..k : str[i] = " "
                 /\ k = Len(str) \/ str[k + 1] # " "
    IN  SubSeq(str, n + 1, Len(str))

\* A digit run without its leading zeros: the numeral of its value.
Numeral(digits) ==
    LET nz == {i \in 1..Len(digits) : digits[i] # "0"}
    IN  IF nz = {} THEN <<"0">>
        ELSE SubSeq(digits, CHOOSE i \in nz : \A j \in nz : i <= j, Len(digits))

\* a <= b for two numerals.
NumeralLeq(a, b) ==
    \/ Len(a) < Len(b)
    \/ /\ Len(a) = Len(b)
       /\ \/ a = b
          \/ \E i \in 1..Len(a) :
                /\ \A j \in 1..(i - 1) : a[j] = b[j]
                /\ DigitValue[a[i]] < DigitValue[b[i]]

MaxNumeral == <<"4", "1", "0", "2", "4", "4", "4", "8", "0", "0">>

DigitChar(n) == CHOOSE c \in DOMAIN DigitValue : DigitValue[c] = n

RECURSIVE DigitsOf(_)
\* The decimal digits of a finite Number > 0, by division of the two limbs.
DigitsOf(x) ==
    IF x = Zero THEN <<>>
    ELSE LET t == (x.d % 10) * SECONDS_IN_DAY + x.s
         IN  DigitsOf(Num(x.d \div 10, t \div 10)) \o <<DigitChar(t % 10)>>

\* The numeral of a finite Number >= 0.
NumeralOf(x) == IF x = Zero THEN <<"0">> ELSE DigitsOf(x)

\* The string, read as sign and digit run, denotes an integer n with
\* 0 <= n <= 4102444800.
DenotesValid(str) ==
    LET digits == LeadingDigits(SignStripped(str))
    IN  /\ digits # <<>>
        /\ str[1] = "-" => Numeral(digits) = <<"0">>
        /\ NumeralLeq(Numeral(digits), MaxNumeral)

\* validateTimestamp's result is the integer the string denotes.
ReturnsDenoted(str, result) ==
    /\ result.kind = "return"
    /\ result.val.t = "number"
    /\ IsFinite(result.val.num)
    /\ NumeralOf(result.val.num) = Numeral(LeadingDigits(SignStripped(str)))

\* validateTimestamp returned null.
ReturnsNull(result) == result.kind = "return" /\ result.val.t = "null"

\* ------------------------------------------------------------ claims

Validated == op = "validateTimestamp"

Formatted == op = "formatTimestamp"

\* The timezone and the mode formatTimestamp works with.
GivenTimezone == DefaultParam(arg.timezone, Ident("UTC"))

GivenMode == DefaultParam(arg.mode, Ident("default"))

\* The timestamp is one validateTimestamp lets through.
ValidTimestamp(timestamp) ==
    /\ timestamp.k = "fin"
    /\ timestamp.d >= 0
    /\ timestamp.d < 47482 \/ (timestamp.d = 47482 /\ timestamp.s = 0)

\* C1 as stated: for every string s, validateTimestamp(s) is non-null iff s,
\* read as an optional sign and a leading digit run with the rest ignored,
\* denotes an integer n with 0 <= n <= 4102444800, and then the value
\* returned is n.
C1_RangeAsStated ==
    (Validated /\ arg.raw.t = "string") =>
        IF DenotesValid(arg.raw.chars)
        THEN ReturnsDenoted(arg.raw.chars, out)
        ELSE ReturnsNull(out)

\* C1 amended: for every string s, validateTimestamp(s) is non-null iff s,
\* read after its leading white space as an optional sign and a leading
\* digit run with the rest ignored, denotes an integer n with
\* 0 <= n <= 4102444800, and then the value returned is n.
C1_Range ==
    (Validated /\ arg.raw.t = "string") =>
        IF DenotesValid(BlanksSkipped(arg.raw.chars))
        THEN ReturnsDenoted(BlanksSkipped(arg.raw.chars), out)
        ELSE ReturnsNull(out)

\* C1 witness: the upper bound itself, followed by a fraction, is accepted.
C1_Witness ==
    /\ Validated
    /\ arg.raw = Str(<<"4", "1", "0", "2", "4", "4", "4", "8", "0", "0", ".", "9">>)
    /\ out.val = Number(MAX_TIMESTAMP)

\* C2: validateTimestamp never raises: whatever it is given, it returns null
\* or a finite number, and the call leaves the host as it was.
C2_NeverRaises ==
    /\ [](Validated =>
            /\ out.kind = "return"
            /\ out.val.t = "null"
                 \/ (out.val.t = "number" /\ IsFinite(out.val.num)))
    /\ [][(op = "none" /\ Validated')
             => UNCHANGED <<hostTimeZone, engine, now, page, timezoneCache, intl>>]_vars

\* C2 witness: the empty string and a word have been answered with null.
C2_Witness ==
    /\ Validated
    /\ arg.raw \in {Str(<<>>), Str(<<"i", "n", "v", "a", "l", "i", "d">>)}
    /\ ReturnsNull(out)

\* C3: for a valid timestamp and any mode, formatTimestamp with a timezone
\* identifier the host does not recognize does not raise and returns what
\* formatTimestamp returns for 'UTC'.
C3_FallbackToUTC ==
    (/\ Formatted
     /\ ValidTimestamp(arg.timestamp)
     /\ GivenTimezone.t = "string"
     /\ GivenTimezone.id \in UnknownZones) =>
        LET utc == formatTimestamp(arg.host, arg.timestamp, Ident("UTC"),
                                   arg.mode)
        IN  /\ out.kind = "return"
            /\ utc.kind = "return"
            /\ out.val = utc.val

\* C4: within one formatTimestamp call the UTC fallback is attempted at most
\* once: a call whose rendering for 'UTC' fails as unrecognized fails with
\* that failure after no more than the one retry.
C4_AtMostOneFallback ==
    Formatted =>
        /\ Len(out.logs) <= 1
        /\ out.calls <= 2
        /\ out.kind = "throw" => out.err # StackOverflow

\* A failure of rendering for the timezone is the failure of an unrecognized
\* timezone identifier.
UnrecognizedTimezone(host, timezone, r) ==
    /\ ~r.ok
    /\ timezone.id \notin host.zones
    /\ r.err = TimeZoneRangeError(host, timezone.id)

\* C5: a failure raised while formatTimestamp renders that is not the failure
\* of an unrecognized timezone reaches the caller as it is, with no retry for
\* 'UTC' after it: whether it is raised for the timezone given or, after a
\* fallback, for 'UTC'.
C5_OtherFailuresPropagate ==
    (/\ Formatted
     /\ ~IsInvalidTimestamp(arg.timestamp)
     /\ ~IsInvalidTimezone(GivenTimezone)) =>
        LET first == Render(arg.host, arg.timestamp, GivenTimezone, GivenMode)
            second == Render(arg.host, arg.timestamp, Ident("UTC"), GivenMode)
        IN  /\ (~first.ok /\ ~UnrecognizedTimezone(arg.host, GivenTimezone, first))
               => out = Throw(first.err, <<>>, 1)
            /\ (/\ Len(out.logs) >= 1
                /\ ~second.ok
                /\ ~UnrecognizedTimezone(arg.host, Ident("UTC"), second))
               => (out.kind = "throw" /\ out.err = second.err
                   /\ Len(out.logs) = 1 /\ out.calls = 2)

\* C5 witness: the RangeError of toISOString has reached the caller of a call
\* for a recognized timezone.
C5_Witness ==
    /\ Formatted
    /\ GivenTimezone.id \in arg.host.zones
    /\ out = Throw(Err("RangeError", "Invalid time value", FALSE), <<>>, 1)

\* C6: formatTimestamp fails with the invalid-timestamp error whenever the
\* timestamp is NaN, an infinity or negative, for every timezone and mode,
\* and returns no string.
C6_InvalidTimestamp ==
    (/\ Formatted
     /\ arg.timestamp.k # "fin" \/ arg.timestamp.d < 0) =>
        /\ out.kind = "throw"
        /\ out.err.cls = "Error"
        /\ out.err.msg = "Invalid timestamp: must be a positive finite number"
        /\ out.val = NoString

\* C6 witness: NaN with an empty timezone has raised the timestamp's error.
C6_Witness ==
    /\ Formatted
    /\ arg.timestamp = NaN
    /\ arg.timezone = Ident("")
    /\ out.kind = "throw"

InvalidTimezoneError ==
    Err("Error", "Invalid timezone: must be a non-empty string", TRUE)

\* C7 as stated: with a valid timestamp formatTimestamp fails with the
\* invalid-timezone error whenever the timezone argument is the empty
\* string, is absent or is not a string.
C7_InvalidTimezoneAsStated ==
    (/\ Formatted
     /\ ValidTimestamp(arg.timestamp)
     /\ arg.timezone.t # "string" \/ arg.timezone.id = "") =>
        (out.kind = "throw" /\ out.err = InvalidTimezoneError)

\* C7 amended: with a valid timestamp formatTimestamp fails with the
\* invalid-timezone error whenever the timezone argument is the empty string
\* or a value other than undefined that is not a string (null, a number);
\* when the argument is absent (undefined) the default 'UTC' takes its place
\* and the call does what the call with 'UTC' does.
C7_InvalidTimezone ==
    (Formatted /\ ValidTimestamp(arg.timestamp)) =>
        /\ (arg.timezone.t \in {"null", "number"}
              \/ (arg.timezone.t = "string" /\ arg.timezone.id = ""))
           => (out.kind = "throw" /\ out.err = InvalidTimezoneError)
        /\ arg.timezone.t = "undefined"
           => out = formatTimestamp(arg.host, arg.timestamp, Ident("UTC"),
                                    arg.mode)

\* C7 witness: null has raised the timezone's error, for a valid timestamp.
C7_Witness ==
    /\ Formatted
    /\ ValidTimestamp(arg.timestamp)
    /\ arg.timezone = Null
    /\ out.kind = "throw"
    /\ out.err = InvalidTimezoneError

\* C8: in the modes default, date, compact and iso, two calls of
\* formatTimestamp with equal arguments return the same string, whatever the
\* current instant and the host's own time zone are at each call.
C8_Deterministic ==
    [][(/\ Formatted /\ Formatted'
        /\ arg'.timestamp = arg.timestamp
        /\ arg'.timezone = arg.timezone
        /\ arg'.mode = arg.mode
        /\ ModeBranch(GivenMode) # "relative"
        /\ out.kind = "return" /\ out'.kind = "return")
       => out'.val = out.val]_vars

\* C9: in iso mode formatTimestamp returns the wall clock of the instant in
\* the timezone asked for, as YYYY-MM-DDTHH:MM:SS with nothing after the
\* seconds.
C9_IsoWallClock ==
    (/\ Formatted
     /\ ModeBranch(GivenMode) = "iso"
     /\ GivenTimezone.t = "string"
     /\ GivenTimezone.id \in arg.host.zones
     /\ out.kind = "return") =>
        LET wall == AddSeconds(arg.timestamp, UtcOffset[GivenTimezone.id])
        IN  out.val = [shape |-> "iso", d |-> wall.d, s |-> wall.s,
                       sep |-> "T", tail |-> "", text |-> ""]

\* C10: a mode outside the five display modes is rendered as 'default' is:
\* the call does exactly what the same call with 'default' does, which for a
\* valid timestamp and a recognized timezone is to return the default
\* rendering; leaving the mode out is the same.
C10_UnknownModeIsDefault ==
    (/\ Formatted
     /\ arg.mode.t = "undefined" \/ arg.mode.id \notin DisplayModes) =>
        /\ out = formatTimestamp(arg.host, arg.timestamp, arg.timezone,
                                 Ident("default"))
        /\ (/\ ValidTimestamp(arg.timestamp)
            /\ GivenTimezone.t = "string"
            /\ GivenTimezone.id \in arg.host.zones)
           => (out.kind = "return" /\ out.val.shape = "default")

\* C10 witness: a call with a mode that is none of the five has returned the
\* default rendering.
C10_Witness ==
    /\ Formatted
    /\ arg.mode = Ident("bogus")
    /\ out.kind = "return"
    /\ out.val.shape = "default"

\* ------------------------------------------------------------ claims on relative time

RelativeCalled == op = "getRelativeTime"

\* The integer nearest to n / k for k > 0, the upper one of two equally
\* near: the q with q - 1/2 <= n / k < q + 1/2.
NearestUp(n, k) ==
    CHOOSE q \in {(n \div k) - 1, n \div k, (n \div k) + 1} :
        /\ 2 * k * q - k <= 2 * n
        /\ 2 * n < 2 * k * q + k

\* The unit the order of tests of the claims selects for four differences.
ExpectedUnit(l) ==
    IF Abs(l.diffDay) >= 365 THEN "year"
    ELSE IF Abs(l.diffDay) >= 7 THEN "week"
    ELSE IF Abs(l.diffSec) < 60 THEN "second"
    ELSE IF Abs(l.diffMin) < 60 THEN "minute"
    ELSE IF Abs(l.diffHour) < 24 THEN "hour"
    ELSE "day"

\* The signed magnitude that goes with the unit.
ExpectedMagnitude(l) ==
    LET unit == ExpectedUnit(l)
    IN  IF unit = "year" THEN NearestUp(l.diffDay, 365)
        ELSE IF unit = "week" THEN NearestUp(l.diffDay, 7)
        ELSE IF unit = "second" THEN l.diffSec
        ELSE IF unit = "minute" THEN l.diffMin
        ELSE IF unit = "hour" THEN l.diffHour
        ELSE l.diffDay

\* Every phrase that names m of a unit, in either direction and number.
Renderings(unit, m) ==
    {"in " \o ToString(m) \o " " \o unit \o e : e \in {"", "s"}}
        \cup {ToString(m) \o " " \o unit \o e \o " ago" : e \in {"", "s"}}

\* The phrase getRelativeTime returned.
RelativeText == out.result.val.text

\* C11: the unit differences are a cascade of roundings: diffSec is
\* diffMs / 1000 rounded, diffMin is diffSec / 60 rounded, diffHour is
\* diffMin / 60 rounded and diffDay is diffHour / 24 rounded, each from the
\* rounded value before it, for differences of either sign (a half is
\* rounded up, as Math.round does).
C11_RoundingCascade ==
    RelativeCalled =>
        LET diffMs == DiffMs(arg.host, arg.date)
            l == out.locals
        IN  /\ l.diffSec = diffMs.sec + NearestUp(diffMs.ms, 1000)
            /\ l.diffMin = NearestUp(l.diffSec, 60)
            /\ l.diffHour = NearestUp(l.diffMin, 60)
            /\ l.diffDay = NearestUp(l.diffHour, 24)

\* C11 witness: 5370 s (1.49 h) ahead is 90 min after the first rounding and
\* 2 h after the second, where rounding the milliseconds would give 1 h.
C11_Witness ==
    /\ RelativeCalled
    /\ DiffMs(arg.host, arg.date) = [sec |-> 5370, ms |-> 0]
    /\ out.locals = [diffSec |-> 5370, diffMin |-> 90, diffHour |-> 2,
                     diffDay |-> 0]
    /\ RelativeText = "in 2 hours"

\* C12: the unit is chosen by the first test that matches, in the order
\* |diffDay| >= 365 (years, round(diffDay / 365)), |diffDay| >= 7 (weeks,
\* round(diffDay / 7)), |diffSec| < 60 (seconds), |diffMin| < 60 (minutes),
\* |diffHour| < 24 (hours), else days: the phrase names that unit and the
\* magnitude that goes with it.
C12_BucketOrder ==
    RelativeCalled =>
        /\ out.result.ok
        /\ RelativeText \in Renderings(ExpectedUnit(out.locals),
                                        Abs(ExpectedMagnitude(out.locals)))

\* C12 witness: 59.5 min ahead has diffMin = 60, which fails the test for
\* minutes, and is rendered in hours.
C12_Witness ==
    /\ RelativeCalled
    /\ out.locals.diffSec = 3570
    /\ out.locals.diffMin = 60
    /\ RelativeText = "in 1 hour"

\* C13: in every bucket a magnitude n > 0 is rendered "in n unit(s)" and a
\* magnitude n <= 0 is rendered "|n| unit(s) ago"; a rounded second
\* difference of 0 is rendered "0 seconds ago".
C13_SignConvention ==
    RelativeCalled =>
        LET n == ExpectedMagnitude(out.locals)
            unit == ExpectedUnit(out.locals)
        IN  /\ n > 0 => RelativeText \in
                   {"in " \o ToString(n) \o " " \o unit \o e : e \in {"", "s"}}
            /\ n <= 0 => RelativeText \in
                   {ToString(0 - n) \o " " \o unit \o e \o " ago" :
                       e \in {"", "s"}}
            /\ out.locals.diffSec = 0 => RelativeText = "0 seconds ago"

\* C13 witness: a target 499 ms ahead has a rounded second difference of 0
\* and is rendered "0 seconds ago".
C13_Witness ==
    /\ RelativeCalled
    /\ DiffMs(arg.host, arg.date) = [sec |-> 1, ms |-> 0 - 501]
    /\ out.locals.diffSec = 0
    /\ RelativeText = "0 seconds ago"

\* C14: in every bucket and for both signs the unit is singular exactly when
\* the absolute value of the magnitude is 1, and plural when it is 0 or at
\* least 2.
C14_Pluralization ==
    RelativeCalled =>
        LET m == Abs(ExpectedMagnitude(out.locals))
            unit == ExpectedUnit(out.locals)
        IN  IF m = 1
            THEN RelativeText \in {"in 1 " \o unit, "1 " \o unit \o " ago"}
            ELSE RelativeText \in
                     {"in " \o ToString(m) \o " " \o unit \o "s",
                      ToString(m) \o " " \o unit \o "s ago"}

\* C14 witness: one week back is singular.
C14_Witness ==
    /\ RelativeCalled
    /\ out.locals.diffDay = 0 - 7
    /\ RelativeText = "1 week ago"

\* C15: a target exactly 7 days (604800 s) ahead is rendered "in 1 week", one
\* exactly 365 days ahead "in 1 year"; a rounded day difference of 7..364 is
\* rendered in weeks, never in days, and one of 365 or more in years, never
\* in weeks.
C15_BucketBoundaries ==
    RelativeCalled =>
        LET diffMs == DiffMs(arg.host, arg.date)
            diffDay == out.locals.diffDay
        IN  /\ diffMs = [sec |-> 604800, ms |-> 0] => RelativeText = "in 1 week"
            /\ diffMs = [sec |-> 31536000, ms |-> 0]
                   => RelativeText = "in 1 year"
            /\ diffDay \in 7..364
                   => \E m \in 1..52 : RelativeText \in Renderings("week", m)
            /\ diffDay >= 365
                   => \E m \in 1..((diffDay \div 365) + 1) :
                          RelativeText \in Renderings("year", m)

\* C15 witness: the target is exactly 7 days ahead and the phrase is
\* "in 1 week".
C15_Witness ==
    /\ RelativeCalled
    /\ DiffMs(arg.host, arg.date) = [sec |-> 604800, ms |-> 0]
    /\ out.locals.diffDay = 7
    /\ RelativeText = "in 1 week"

\* ------------------------------------------------------------ claims on the wrappers

SafelyFormatted == op = "safeFormatTimestamp"

Converted == op = "convertTimestamp"

Guarded == op = "isValidTimestamp"

\* What formatTimestamp does with the arguments of the call, on the host of
\* the call.
SameFormat ==
    formatTimestamp(arg.host, arg.timestamp, arg.timezone, arg.mode)

\* C16: safeFormatTimestamp never raises: it returns the fallback string of
\* the caller (the default 'Invalid timestamp' when none is given) whenever
\* formatTimestamp with the same timestamp, timezone and mode fails, and
\* exactly the result of formatTimestamp whenever that succeeds.
C16_SafeFormat ==
    SafelyFormatted =>
        /\ out.kind = "return"
        /\ out.err = NoError
        /\ SameFormat.kind = "return" => out.val = SameFormat.val
        /\ (SameFormat.kind = "throw" /\ arg.fallback.t = "string")
               => out.val = Text(arg.fallback.id)
        /\ (SameFormat.kind = "throw" /\ arg.fallback.t = "undefined")
               => out.val = Text("Invalid timestamp")

\* C16 witness: the RangeError of toISOString raised for a valid timestamp
\* has been answered with the fallback of the caller.
C16_Witness ==
    /\ SafelyFormatted
    /\ SameFormat.kind = "throw"
    /\ SameFormat.err.cls = "RangeError"
    /\ arg.fallback = Ident("Error occurred")
    /\ out = Return(Text("Error occurred"),
                    <<"error: Error formatting timestamp:">>, 1)

\* C17: convertTimestamp calls formatTimestamp exactly once, with its own
\* arguments; when that succeeds it returns a record whose timestamp,
\* timezone and mode are the arguments (the defaults 'UTC' and 'default' for
\* those left out) and whose formattedDate is the result of formatTimestamp;
\* when it fails the same failure reaches the caller and no record is
\* returned.
C17_ConvertPackages ==
    Converted =>
        /\ out.invoked = <<[timestamp |-> arg.timestamp,
                            timezone |-> GivenTimezone, mode |-> GivenMode]>>
        /\ SameFormat.kind = "return" =>
               /\ out.kind = "return"
               /\ out.val = [timestamp |-> arg.timestamp,
                             formattedDate |-> SameFormat.val,
                             timezone |-> GivenTimezone, mode |-> GivenMode]
        /\ SameFormat.kind = "throw" =>
               /\ out.kind = "throw"
               /\ out.err = SameFormat.err
               /\ out.val = NoConversion

\* C17 witness: convertTimestamp(1747510600, 'Australia/Sydney', 'default')
\* has returned its record, with the rendering of Sydney's wall clock.
C17_Witness ==
    /\ Converted
    /\ arg.timestamp = Num(20225, 70600)
    /\ arg.timezone = Ident("Australia/Sydney")
    /\ out.kind = "return"
    /\ out.val.timezone = Ident("Australia/Sydney")
    /\ out.val.formattedDate.shape = "default"
    /\ out.val.formattedDate.d = 20226

\* The number is greater than 4102444800.
AboveMax(num) ==
    num.k = "fin" /\ (num.d > 47482 \/ (num.d = 47482 /\ num.s > 0))

\* C18: isValidTimestamp(v) is true iff v is a number, finite and >= 0; it
\* is true for the numbers above 4102444800, whose numerals
\* validateTimestamp rejects, and false for numeric strings, null, NaN and
\* the infinities.
C18_TypeGuard ==
    Guarded =>
        LET v == arg.value
        IN  /\ out = (v.t = "number" /\ v.num.k = "fin" /\ v.num.d >= 0)
            /\ (v.t = "number" /\ AboveMax(v.num)) =>
                   /\ out
                   /\ ReturnsNull(validateTimestamp(Str(NumeralOf(v.num))))
            /\ v.t \in {"string", "null"} => ~out
            /\ (v.t = "number" /\ v.num.k \in {"nan", "inf", "ninf"}) => ~out

\* C18 witness: 4102444801 is a valid timestamp for isValidTimestamp.
C18_Witness ==
    /\ Guarded
    /\ arg.value = Number(Num(47482, 1))
    /\ out = TRUE

\* ------------------------------------------------------------ claims on validation and the page

\* The timestamp of the call is what validateTimestamp returns for a string.
FromValidation ==
    \E raw \in RawInputs :
        /\ raw.t = "string"
        /\ validateTimestamp(raw) = ValidateResult("return",
                                                   Number(arg.timestamp))

\* C19: validation is sufficient for formatting: for every string s with
\* validateTimestamp(s) = n not null, every timezone the host recognizes and
\* each of the five modes, formatTimestamp(n, timezone, mode) returns a
\* string and raises nothing.
C19_ValidationSuffices ==
    (/\ Formatted
     /\ FromValidation
     /\ GivenTimezone.t = "string"
     /\ GivenTimezone.id \in arg.host.zones
     /\ arg.mode.t = "string"
     /\ arg.mode.id \in DisplayModes) =>
        /\ out.kind = "return"
        /\ out.val # NoString

\* The effect of the page has run.
EffectDone == page.mounted /\ ~page.effectPending

\* C20: on the timestamp page the 'Invalid timestamp provided' error state
\* is entered iff validateTimestamp returned null for the route string:
\* every accepted timestamp, 0 included, is passed to formatTimestamp.
C20_InvalidIffRejected ==
    EffectDone =>
        LET accepted == ~ReturnsNull(validateTimestamp(page.route))
        IN  /\ (page.error = "Invalid timestamp provided") <=> ~accepted
            /\ accepted =>
                   /\ page.lastFormat # <<>>
                   /\ page.lastFormat[1].timestamp
                          = validateTimestamp(page.route).val.num

\* ------------------------------------------------------------ claims on the page's mode and on logging

\* C21: the mode the timestamp page passes to formatTimestamp is always one
\* of the five DisplayMode literals: the 'mode' query value when it is
\* exactly one of them, and 'default' when the parameter is missing, empty
\* or any other string.
C21_PageModeIsDisplayMode ==
    (page.mounted /\ page.lastFormat # <<>>) =>
        LET passed == page.lastFormat[1].mode
        IN  /\ passed.t = "string"
            /\ passed.id \in DisplayModes
            /\ (page.modeParam.t = "string" /\ page.modeParam.id \in DisplayModes)
                   => passed = page.modeParam
            /\ (page.modeParam.t = "null" \/ page.modeParam.id \notin DisplayModes)
                   => passed = Ident("default")

\* C21 witness: the page opened with ?mode=bogus has called formatTimestamp
\* with 'default'.
C21_Witness ==
    /\ page.mounted
    /\ page.modeParam = Ident("bogus")
    /\ page.lastFormat # <<>>
    /\ page.lastFormat[1].mode = Ident("default")
    /\ page.formattedDate.shape = "default"

WarnFallback == "warn: Invalid timezone, falling back to UTC"

ErrorFormatting == "error: Error formatting timestamp:"

\* The rendering for the timezone given fails.
FirstRenderingFails ==
    /\ ~IsInvalidTimestamp(arg.timestamp)
    /\ ~IsInvalidTimezone(GivenTimezone)
    /\ ~Render(arg.host, arg.timestamp, GivenTimezone, GivenMode).ok

\* C22: whenever formatTimestamp or safeFormatTimestamp absorbs a failure
\* (the UTC fallback, or the return of the fallback string) a diagnostic log
\* entry has been emitted before the value is returned: a result returned
\* for a rendering that failed comes with the warning of the fallback, and a
\* fallback string with the console.error entry as the last entry.
C22_AbsorbedFailuresAreLogged ==
    /\ (Converted /\ FirstRenderingFails /\ out.kind = "return")
           => (out.logs # <<>> /\ out.logs[1] = WarnFallback)
    /\ (SafelyFormatted /\ FirstRenderingFails /\ SameFormat.kind = "return")
           => (out.logs # <<>> /\ out.logs[1] = WarnFallback)
    /\ (SafelyFormatted /\ SameFormat.kind = "throw")
           => /\ out.logs # <<>>
              /\ out.logs[Len(out.logs)] = ErrorFormatting
              /\ out.logs = SameFormat.logs \o <<ErrorFormatting>>

\* C22 witness: the rendering for an unrecognized timezone failed, the
\* retry for 'UTC' failed too, and the fallback string came back after the
\* warning and the error entry.
C22_Witness ==
    /\ SafelyFormatted
    /\ FirstRenderingFails
    /\ out.kind = "return"
    /\ out.val = Text("Error occurred")
    /\ out.logs = <<WarnFallback, ErrorFormatting>>

\* ------------------------------------------------------------ claims on the timezone lists

ListGot == op = "getAllTimezones"

GroupsGot == op = "getTimezoneGroups"

\* The capability gives getAllTimezones nothing to build a list from.
NothingUsable(capability) ==
    \/ capability.kind # "list"
    \/ \A i \in DOMAIN capability.list : ~IsValidEntry(capability.list[i])

\* C23: getAllTimezones always returns a non-empty list of non-empty
\* strings, whatever Intl.supportedValuesOf does; when the capability is
\* missing, throws, returns no array, an empty list or only invalid entries,
\* the list returned is the fixed fallback list.
C23_AlwaysAList ==
    ListGot =>
        /\ ~out.result.isNull
        /\ Len(out.result.items) > 0
        /\ \A i \in DOMAIN out.result.items : out.result.items[i] # ""
        /\ NothingUsable(arg.intl) => out.result.items = FALLBACK_TIMEZONES

\* C23 witness: a capability that lists only things that are no timezone
\* names was queried, and the fallback list came back with the warning.
C23_Witness ==
    /\ ListGot
    /\ arg.intl = Supported(InvalidOnly)
    /\ out.queried
    /\ out.result.items = FALLBACK_TIMEZONES
    /\ out.logs = <<"warn: No valid timezones found, using fallback timezones">>

\* All the values of a result of getTimezoneGroups, group after group.
RECURSIVE ValuesOf(_)
ValuesOf(groups) ==
    IF groups = <<>> THEN <<>>
    ELSE groups[1].timezones \o ValuesOf(Tail(groups))

\* The values of the group 'All Other Timezones' of a result.
OtherValues(groups) == groups[Len(groups)].timezones

C25_OthersAscending ==
    GroupsGot =>
        LET others == OtherValues(out.result.groups)
        IN  \A i, j \in DOMAIN others :
                i < j => Rank(others[i]) <= Rank(others[j])

\* A step that is a call made right after a call of the same getter.
SameGetterAgain ==
    /\ now' = now
    /\ op \in {"getAllTimezones", "getTimezoneGroups"}
    /\ op' = op

\* C26 as stated: two successive calls of the same getter with no
\* clearTimezoneCache between them and less than the TTL elapsed between
\* them return the very same value, and the second does not query the
\* capability.
C26_WithinTTLOfLastCall ==
    [][(SameGetterAgain /\ ElapsedLess(now, arg.now, CACHE_TTL))
           => (out'.result = out.result /\ ~out'.queried)]_vars

\* The cache a call found was updated less than the TTL before the call.
FoundFresh == ElapsedLess(arg.now, arg.cache.lastUpdated, CACHE_TTL)

\* C26: a call of getAllTimezones (likewise of getTimezoneGroups) that
\* finds a value of its own in the cache, the cache updated by either getter
\* less than the TTL before and not cleared since, returns that very value
\* and does not query the capability; a call that finds the cache cleared
\* computes its value anew, from the capability where there is one.
C26_FreshCacheIsReturned ==
    /\ (ListGot /\ ~arg.cache.allTimezones.isNull /\ FoundFresh)
           => (out.result = arg.cache.allTimezones /\ ~out.queried)
    /\ (GroupsGot /\ ~arg.cache.timezoneGroups.isNull /\ FoundFresh)
           => (out.result = arg.cache.timezoneGroups /\ ~out.queried)
    /\ ((ListGot \/ GroupsGot) /\ arg.cache = EmptyCache)
           => /\ out.result.born = arg.now
              /\ out.queried <=> arg.intl.kind # "missing"

\* C26 witness: a list made four minutes earlier is returned from the
\* cache.
C26_Witness ==
    /\ ListGot
    /\ ~arg.cache.allTimezones.isNull
    /\ arg.cache.lastUpdated = DateOf(Num(23741, 0), 0)
    /\ arg.now = DateOf(Num(23741, 240), 0)
    /\ out.result = arg.cache.allTimezones
    /\ ~out.queried

\* C27: neither getter returns a value that was computed more than
\* CACHE_TTL before the call.
C27_NothingOlderThanTTL ==
    (ListGot \/ GroupsGot)
        => ElapsedLess(arg.now, out.result.born, CACHE_TTL + 1)

\* ------------------------------------------------------------ claims on magnitudes and symmetry

\* The magnitudes a unit may be printed with; no more years are printed
\* than the days of the difference hold, and one for the rounding.
MagnitudeRange(unit) ==
    IF unit = "second" THEN 0..59
    ELSE IF unit = "minute" THEN 1..59
    ELSE IF unit = "hour" THEN 1..23
    ELSE IF unit = "day" THEN 1..6
    ELSE IF unit = "week" THEN 1..52
    ELSE 1..((Abs(out.locals.diffDay) \div 365) + 1)

Units == {"second", "minute", "hour", "day", "week", "year"}

\* C28: the magnitude printed by getRelativeTime lies in the range of its
\* unit and is 0 only for seconds: seconds 0..59, minutes 1..59, hours
\* 1..23, days 1..6, weeks 1..52, years 1 and more.
C28_MagnitudeInRange ==
    (RelativeCalled /\ out.result.ok) =>
        \E unit \in Units : \E m \in MagnitudeRange(unit) :
            RelativeText \in Renderings(unit, m)

\* C28 witness: 364 days ahead, the last difference before the years, is
\* printed as 52 weeks.
C28_Witness ==
    /\ RelativeCalled
    /\ out.result.ok
    /\ out.locals.diffDay = 364
    /\ RelativeText = "in 52 weeks"

\* The difference of the call, target minus current instant.
CallDiff == DiffMs(arg.host, arg.date)

\* The phrase for the target as far on the other side of the current
\* instant.
MirrorText == RelativePhrase(0 - CallDiff.sec, 0 - CallDiff.ms)

\* Two phrases name the same magnitude of the same unit.
SameUnitAndMagnitude(a, b) ==
    \E unit \in Units : \E m \in 0..59 :
        a \in Renderings(unit, m) /\ b \in Renderings(unit, m)

\* The two phrases point in opposite directions.
OppositeDirections(a, b) ==
    \E unit \in Units : \E m \in 0..59 : \E e \in {"", "s"} :
        {a, b} = {"in " \o ToString(m) \o " " \o unit \o e,
                  ToString(m) \o " " \o unit \o e \o " ago"}

\* C30 as stated: a target d milliseconds after the current instant and a
\* target d milliseconds before it render with the same unit and the same
\* magnitude, for every d > 0.
C30_Symmetric ==
    (RelativeCalled /\ out.result.ok /\ CallDiff # [sec |-> 0, ms |-> 0])
        => SameUnitAndMagnitude(RelativeText, MirrorText)

\* No rounding of the cascade meets an exact half: not the milliseconds to
\* seconds, nor the seconds, minutes and hours so rounded to the next unit.
NoHalves ==
    /\ Abs(CallDiff.ms) # 500
    /\ Abs(out.locals.diffSec) % 60 # 30
    /\ Abs(out.locals.diffMin) % 60 # 30
    /\ Abs(out.locals.diffHour) % 24 # 12

\* C30: for every d > 0 at which no rounding of the cascade meets an exact
\* half, the targets d milliseconds after and d milliseconds before the
\* current instant render with the same unit and the same magnitude, one as
\* "in n unit(s)" and the other as "n unit(s) ago"; differences that round
\* to 0 seconds are "0 seconds ago" on both sides.
C30_SymmetricOffHalves ==
    (RelativeCalled /\ out.result.ok /\ CallDiff # [sec |-> 0, ms |-> 0]
         /\ NoHalves)
        => /\ SameUnitAndMagnitude(RelativeText, MirrorText)
           /\ out.locals.diffSec # 0
                  => OppositeDirections(RelativeText, MirrorText)
           /\ out.locals.diffSec = 0
                  => (RelativeText = "0 seconds ago" /\ MirrorText = RelativeText)

\* C30 witness: 90.501 seconds ahead is printed as 2 minutes, and so is
\* 90.501 seconds back.
C30_Witness ==
    /\ RelativeCalled
    /\ out.result.ok
    /\ NoHalves
    /\ CallDiff = [sec |-> 91, ms |-> 0 - 499]
    /\ RelativeText = "in 2 minutes"
    /\ MirrorText = "2 minutes ago"

\* ------------------------------------------------------------ claims on what the page shows

\* The page shows a date: it is mounted, not loading, and has no error.
DateShown == page.mounted /\ ~page.isLoading /\ page.error = ""

\* formatTimestamp(timestamp, selectedTimezone, mode) for the state of the
\* page, on the host as it is.
FormattedNow ==
    formatTimestamp(Host, page.timestamp.num, Ident(page.selectedTimezone),
                    page.mode)

\* C29: whenever the page is not loading and its error is empty, the
\* formattedDate it shows equals formatTimestamp(timestamp,
\* selectedTimezone, mode), for the modes other than relative.
C29_ShownIsFormatted ==
    (DateShown /\ page.mode # Ident("relative"))
        => (FormattedNow.kind = "return" /\ page.formattedDate = FormattedNow.val)

====
